---- MODULE Spec2Model ----
(***************************************************************************)
(* Model of monitor_serial.py, the Daisy Seed serial monitor.              *)
(*                                                                         *)
(* One run of main() is modelled as a sequential program with a program    *)
(* counter.  The operating system (the list of serial ports returned by    *)
(* comports(), the outcome of opening the device, the bytes arriving on    *)
(* the wire, I/O failures) and the user (at most one Ctrl+C per run,       *)
(* delivered at any point) are nondeterministic.                           *)
(*                                                                         *)
(* Port texts are sequences of one-character strings.  Serial data is a    *)
(* sequence of byte values; decoded text is a sequence of code points.     *)
(***************************************************************************)
EXTENDS Integers, Sequences, FiniteSets

VARIABLES
    argv,       \* command-line arguments after the script name: <<>> or <<port>>
    pc,         \* position of the run
    port,       \* main: the resolved port (None when unset or not detected)
    ports,      \* find_daisy_port: the list returned by comports(), <<>> outside the call
    table,      \* list_available_ports: the rows printed in the port table
    available,  \* main: device paths returned by list_available_ports
    ser,        \* monitor_serial: "unbound", "open" or "closed"
    waiting,    \* whether the last in_waiting check found unread bytes
    raw,        \* the bytes readline() returned to the current loop iteration
    line,       \* monitor_serial: the decoded and stripped line of the iteration
    echoed,     \* lines printed by the current loop iteration
    slept,      \* whether time.sleep ran since the last in_waiting check
    out,        \* diagnostics printed so far (by their leading text)
    hint,       \* the port named in the usage example
    calls,      \* functions of the program and of pyserial called so far
    exc,        \* the exception raised in the run, "none" if none
    excAt,      \* the position at which it was raised
    exitCode    \* value returned by main, NoExit until it returns

vars == <<argv, pc, port, ports, table, available, ser, waiting, raw, line,
          echoed, slept, out, hint, calls, exc, excAt, exitCode>>

----------------------------------------------------------------------------
(* Bounds *)

MaxPorts == 2     \* longest list of ports comports() returns
MaxLen == 3       \* longest line body (bytes before the terminator) readline() returns

----------------------------------------------------------------------------
(* Text helpers *)

None == <<>>
NoExit == -1

ToLower == [A |-> "a", B |-> "b", C |-> "c", D |-> "d", E |-> "e", F |-> "f",
            G |-> "g", H |-> "h", I |-> "i", J |-> "j", K |-> "k", L |-> "l",
            M |-> "m", N |-> "n", O |-> "o", P |-> "p", Q |-> "q", R |-> "r",
            S |-> "s", T |-> "t", U |-> "u", V |-> "v", W |-> "w", X |-> "x",
            Y |-> "y", Z |-> "z"]

ToUpper == [a |-> "A", b |-> "B", c |-> "C", d |-> "D", e |-> "E", f |-> "F",
            g |-> "G", h |-> "H", i |-> "I", j |-> "J", k |-> "K", l |-> "L",
            m |-> "M", n |-> "N", o |-> "O", p |-> "P", q |-> "Q", r |-> "R",
            s |-> "S", t |-> "T", u |-> "U", v |-> "V", w |-> "W", x |-> "X",
            y |-> "Y", z |-> "Z"]

\* str.lower()
lower(s) == [i \in 1..Len(s) |-> IF s[i] \in DOMAIN ToLower THEN ToLower[s[i]] ELSE s[i]]

\* str.upper(), used to build test inputs only
upper(s) == [i \in 1..Len(s) |-> IF s[i] \in DOMAIN ToUpper THEN ToUpper[s[i]] ELSE s[i]]

\* Python's substring test: keyword in text
In(keyword, text) ==
    \E i \in 0..(Len(text) - Len(keyword)) : SubSeq(text, i + 1, i + Len(keyword)) = keyword

----------------------------------------------------------------------------
(* find_daisy_port *)

daisy_keywords == << <<"d","a","i","s","y">>,
                     <<"s","e","e","d">>,
                     <<"s","t","m">>,
                     <<"u","s","b","m","o","d","e","m">>,
                     <<"u","s","b","s","e","r","i","a","l">>,
                     <<"S","L","A","B">> >>

\* A slip in the condition: "keyword in desc_lower or device_lower"
KeywordHit_truthy(p, keyword) ==
    In(keyword, lower(p.description)) \/ lower(p.device) # <<>>

\* if keyword in desc_lower or keyword in device_lower
KeywordHit(p, keyword) ==
    In(keyword, lower(p.description)) \/ In(keyword, lower(p.device))

RECURSIVE ScanKeywords(_, _)
\* for keyword in daisy_keywords: ... return port.device
ScanKeywords(p, j) ==
    IF j > Len(daisy_keywords) THEN FALSE
    ELSE IF KeywordHit(p, daisy_keywords[j]) THEN TRUE
    ELSE ScanKeywords(p, j + 1)

RECURSIVE ScanPorts(_, _)
\* for port in ports: ... ; return None
ScanPorts(ps, i) ==
    IF i > Len(ps) THEN None
    ELSE IF ScanKeywords(ps[i], 1) THEN ps[i].device
    ELSE ScanPorts(ps, i + 1)

\* find_daisy_port applied to the list comports() returned
find_daisy_port(ps) == ScanPorts(ps, 1)

----------------------------------------------------------------------------
(* Line 70: readline().decode('utf-8', errors='ignore').strip() *)

Space == 32
Newline == 10
LetterA == 97
LeadC2 == 194      \* first byte of a two-byte sequence (C2 A0 encodes U+00A0)
ContA0 == 160      \* a continuation byte
BadFF == 255       \* never valid in UTF-8

\* Bytes the wire delivers between line terminators.  No lead byte of a
\* three- or four-byte sequence is among them.
BodyBytes == {Space, LetterA, LeadC2, ContA0, BadFF}

IsAscii(b) == b < 128
IsLead2(b) == 194 <= b /\ b <= 223
IsCont(b) == 128 <= b /\ b <= 191

\* Code points below U+0100 for which str.isspace() is true: the characters
\* str.strip() removes.
Whitespace == {9, 10, 11, 12, 13, 28, 29, 30, 31, 32, 133, 160}

RECURSIVE decode_ignore(_)
\* bytes.decode('utf-8', errors='ignore') on one- and two-byte sequences:
\* a byte that starts no valid sequence is skipped and decoding resumes
\* with the next byte.
decode_ignore(bytes) ==
    IF bytes = <<>> THEN <<>>
    ELSE LET b == Head(bytes) IN
         IF IsAscii(b) THEN <<b>> \o decode_ignore(Tail(bytes))
         ELSE IF IsLead2(b) /\ Len(bytes) >= 2 /\ IsCont(bytes[2])
              THEN <<(b - 192) * 64 + (bytes[2] - 128)>>
                   \o decode_ignore(SubSeq(bytes, 3, Len(bytes)))
              ELSE decode_ignore(Tail(bytes))

RECURSIVE lstrip(_)
lstrip(s) == IF s # <<>> /\ Head(s) \in Whitespace THEN lstrip(Tail(s)) ELSE s

RECURSIVE rstrip(_)
rstrip(s) ==
    IF s # <<>> /\ s[Len(s)] \in Whitespace THEN rstrip(SubSeq(s, 1, Len(s) - 1)) ELSE s

\* str.strip()
strip(s) == rstrip(lstrip(s))

\* The text assigned to the local variable line
decode_line(bytes) == strip(decode_ignore(bytes))

----------------------------------------------------------------------------
(* Inputs *)

RECURSIVE SeqsUpTo(_, _)
\* All sequences over S of length at most n
SeqsUpTo(S, n) ==
    IF n = 0 THEN {<<>>}
    ELSE LET shorter == SeqsUpTo(S, n - 1)
         IN shorter \cup {Append(q, x) : q \in {r \in shorter : Len(r) = n - 1}, x \in S}

\* What readline() can return: a body, ended by the terminator or cut by the
\* read timeout.
RawLines == {body \o term : body \in SeqsUpTo(BodyBytes, MaxLen),
                            term \in {<<>>, <<Newline>>}}

Port(dev, desc) == [device |-> dev, description |-> desc]

\* Lists of at most MaxPorts ports with pairwise different device paths
PortLists(pool) ==
    {ps \in SeqsUpTo(pool, MaxPorts) :
        \A i, j \in 1..Len(ps) : i # j => ps[i].device # ps[j].device}

DevCom3 == <<"C","O","M","3">>
DevModem == <<"/","d","e","v","/","c","u",".","u","s","b","m","o","d","e","m","1">>
DevSlab == <<"/","d","e","v","/","c","u",".","S","L","A","B","_","U","S","B">>
DevAcm == <<"/","d","e","v","/","t","t","y","A","C","M","0">>
DevFake == <<"/","d","e","v","/","t","t","y","F","A","K","E">>
DescNone == <<"n","/","a">>
DescDaisy == <<"D","a","i","s","y"," ","S","e","e","d">>
DescCp210 == <<"C","P","2","1","0","2">>

\* Ports of the runs of main: one that matches no keyword, one that matches
\* by description, one that matches by device path, one of a Silicon Labs
\* bridge.
MainPool == {Port(DevCom3, DescNone), Port(DevAcm, DescDaisy),
             Port(DevModem, DescNone), Port(DevSlab, DescCp210)}

\* Explicit port arguments
ArgPorts == {DevFake, DevCom3}

\* Descriptions for the checks of find_daisy_port: every keyword, as written,
\* in lower case and in upper case, inside other text; and one without any.
Embed(word) == <<"X","-">> \o word \o <<" ","1">>
DetectDescs == {DescNone}
               \cup {Embed(daisy_keywords[j]) : j \in 1..Len(daisy_keywords)}
               \cup {Embed(lower(daisy_keywords[j])) : j \in 1..Len(daisy_keywords)}
               \cup {Embed(upper(daisy_keywords[j])) : j \in 1..Len(daisy_keywords)}

DetectPool == {Port(dev, desc) : dev \in {DevCom3, DevAcm, DevModem, DevSlab},
                                 desc \in DetectDescs}

----------------------------------------------------------------------------
(* Positions *)

\* Statements of monitor_serial inside its try block (lines 45-77)
OpenPcs == {"open"}
SetupPcs == {"banner", "reset"}
LoopPcs == {"in_waiting", "readline", "print_line", "sleep"}
TryPcs == OpenPcs \cup SetupPcs \cup LoopPcs

\* Statements of main, find_daisy_port and list_available_ports, and the
\* except clauses of monitor_serial: nothing catches an exception raised here
MainPcs == {"main", "comports", "scan", "check_port", "list_ports", "check_available"}
HandlerPcs == {"except_serial", "except_exception"}

\* Calls into pyserial that can fail once the device is open
IoPcs == {"reset", "in_waiting", "readline"}

FinalPcs == {"done", "uncaught"}

Devices(ps) == [i \in 1..Len(ps) |-> ps[i].device]

----------------------------------------------------------------------------
(* Initial state *)

Locals ==
    /\ port = None
    /\ ports = <<>>
    /\ table = <<>>
    /\ available = <<>>
    /\ ser = "unbound"
    /\ waiting = FALSE
    /\ raw = <<>>
    /\ line = <<>>
    /\ echoed = <<>>
    /\ slept = FALSE
    /\ out = {}
    /\ hint = None
    /\ calls = {}
    /\ exc = "none"
    /\ excAt = "none"
    /\ exitCode = NoExit

Init ==
    /\ argv \in {<<>>} \cup {<<a>> : a \in ArgPorts}
    /\ pc = "main"
    /\ Locals

----------------------------------------------------------------------------
(* main, lines 95-121 *)

\* A slip: the argument is ignored and the port is always searched for
MainStart_search ==
    /\ pc = "main"
    /\ out' = out \cup {"Searching for Daisy Seed..."}
    /\ calls' = calls \cup {"find_daisy_port"}
    /\ pc' = "comports"
    /\ UNCHANGED <<argv, port, ports, table, available, ser, waiting, raw, line,
                   echoed, slept, hint, exc, excAt, exitCode>>

\* Lines 96-100
MainStart ==
    /\ pc = "main"
    /\ IF Len(argv) > 0
       THEN /\ port' = argv[1]
            /\ pc' = "open"
            /\ UNCHANGED <<out, calls>>
       ELSE /\ out' = out \cup {"Searching for Daisy Seed..."}
            /\ calls' = calls \cup {"find_daisy_port"}
            /\ pc' = "comports"
            /\ UNCHANGED port
    /\ UNCHANGED <<argv, ports, table, available, ser, waiting, raw, line,
                   echoed, slept, hint, exc, excAt, exitCode>>

\* Line 27: find_daisy_port asks the system for its ports
FindEnumerate(lists) ==
    /\ pc = "comports"
    /\ \E ps \in lists : ports' = ps
    /\ calls' = calls \cup {"comports"}
    /\ pc' = "scan"
    /\ UNCHANGED <<argv, port, table, available, ser, waiting, raw, line,
                   echoed, slept, out, hint, exc, excAt, exitCode>>

\* Lines 30-40 and the assignment of line 100
FindScan ==
    /\ pc = "scan"
    /\ port' = find_daisy_port(ports)
    /\ pc' = "check_port"
    /\ UNCHANGED <<argv, ports, table, available, ser, waiting, raw, line,
                   echoed, slept, out, hint, calls, exc, excAt, exitCode>>

\* Lines 102-103 and 118-119.  The list of find_daisy_port is local to that
\* call; the model keeps it until main has tested the result.
MainCheckPort ==
    /\ pc = "check_port"
    /\ IF port = None
       THEN /\ out' = out \cup {"Could not auto-detect Daisy Seed port."}
            /\ calls' = calls \cup {"list_available_ports"}
            /\ pc' = "list_ports"
       ELSE /\ out' = out \cup {"Found port:"}
            /\ pc' = "open"
            /\ UNCHANGED calls
    /\ ports' = <<>>
    /\ UNCHANGED <<argv, port, table, available, ser, waiting, raw, line,
                   echoed, slept, hint, exc, excAt, exitCode>>

\* Line 104 and list_available_ports, lines 15-23
ListPorts(lists) ==
    /\ pc = "list_ports"
    /\ \E ps \in lists :
          /\ table' = ps
          /\ available' = Devices(ps)
    /\ calls' = calls \cup {"comports"}
    /\ out' = out \cup {"Available serial ports:"}
    /\ pc' = "check_available"
    /\ UNCHANGED <<argv, port, ports, ser, waiting, raw, line,
                   echoed, slept, hint, exc, excAt, exitCode>>

\* A slip: the example names the last port of the listing
MainCheckAvailable_last ==
    /\ pc = "check_available"
    /\ IF available = <<>>
       THEN /\ out' = out \cup {"No serial ports found!", "Make sure: firmware is running"}
            /\ UNCHANGED hint
       ELSE /\ out' = out \cup {"Please specify the port manually:", "Example:"}
            /\ hint' = available[Len(available)]
    /\ exitCode' = 1
    /\ pc' = "done"
    /\ UNCHANGED <<argv, port, ports, table, available, ser, waiting, raw, line,
                   echoed, slept, calls, exc, excAt>>

\* Lines 105-117
MainCheckAvailable ==
    /\ pc = "check_available"
    /\ IF available = <<>>
       THEN /\ out' = out \cup {"No serial ports found!", "Make sure: firmware is running"}
            /\ UNCHANGED hint
       ELSE /\ out' = out \cup {"Please specify the port manually:", "Example:"}
            /\ hint' = available[1]
    /\ exitCode' = 1
    /\ pc' = "done"
    /\ UNCHANGED <<argv, port, ports, table, available, ser, waiting, raw, line,
                   echoed, slept, calls, exc, excAt>>

----------------------------------------------------------------------------
(* monitor_serial, lines 42-93 *)

\* Lines 45-52: serial.Serial(...) returns the open device and ser is bound
Open ==
    /\ pc = "open"
    /\ ser' = "open"
    /\ calls' = calls \cup {"Serial"}
    /\ pc' = "banner"
    /\ UNCHANGED <<argv, port, ports, table, available, waiting, raw, line,
                   echoed, slept, out, hint, exc, excAt, exitCode>>

\* Lines 45-52: serial.Serial(...) raises SerialException, ser stays unbound
OpenFails ==
    /\ pc = "open"
    /\ calls' = calls \cup {"Serial"}
    /\ exc' = "SerialException"
    /\ excAt' = pc
    /\ pc' = "except_serial"
    /\ UNCHANGED <<argv, port, ports, table, available, ser, waiting, raw, line,
                   echoed, slept, out, hint, exitCode>>

\* Lines 54-61
Banner ==
    /\ pc = "banner"
    /\ out' = out \cup {"Daisy Seed Serial Monitor"}
    /\ pc' = "reset"
    /\ UNCHANGED <<argv, port, ports, table, available, ser, waiting, raw, line,
                   echoed, slept, hint, calls, exc, excAt, exitCode>>

\* Line 64
ResetInputBuffer ==
    /\ pc = "reset"
    /\ calls' = calls \cup {"reset_input_buffer"}
    /\ pc' = "in_waiting"
    /\ UNCHANGED <<argv, port, ports, table, available, ser, waiting, raw, line,
                   echoed, slept, out, hint, exc, excAt, exitCode>>

\* Line 68: if ser.in_waiting > 0.  A new iteration begins: the line of the
\* iteration before is not read again before line 70 assigns it, and the
\* model forgets it together with what that iteration read and printed.
CheckInWaiting ==
    /\ pc = "in_waiting"
    /\ \E unread \in BOOLEAN :
          /\ waiting' = unread
          /\ pc' = IF unread THEN "readline" ELSE "sleep"
    /\ calls' = calls \cup {"in_waiting"}
    /\ raw' = <<>>
    /\ line' = <<>>
    /\ echoed' = <<>>
    /\ slept' = FALSE
    /\ UNCHANGED <<argv, port, ports, table, available, ser,
                   out, hint, exc, excAt, exitCode>>

\* Line 70.  With errors='ignore' the decoding raises no UnicodeDecodeError,
\* so the except clause of lines 73-75 is never entered.
ReadLine ==
    /\ pc = "readline"
    /\ \E bytes \in RawLines :
          /\ raw' = bytes
          /\ line' = decode_line(bytes)
    /\ pc' = "print_line"
    /\ UNCHANGED <<argv, port, ports, table, available, ser, waiting,
                   echoed, slept, out, hint, calls, exc, excAt, exitCode>>

\* A slip: the line is printed without the test of line 71
PrintLine_always ==
    /\ pc = "print_line"
    /\ echoed' = Append(echoed, line)
    /\ pc' = "sleep"
    /\ UNCHANGED <<argv, port, ports, table, available, ser, waiting, raw, line,
                   slept, out, hint, calls, exc, excAt, exitCode>>

\* A slip: the sleep of line 77 moved into an else branch of line 68
PrintLine_nosleep ==
    /\ pc = "print_line"
    /\ echoed' = IF line # <<>> THEN Append(echoed, line) ELSE echoed
    /\ pc' = "in_waiting"
    /\ UNCHANGED <<argv, port, ports, table, available, ser, waiting, raw, line,
                   slept, out, hint, calls, exc, excAt, exitCode>>

\* Lines 71-72; line 77 follows whatever the branch taken
PrintLine ==
    /\ pc = "print_line"
    /\ echoed' = IF line # <<>> THEN Append(echoed, line) ELSE echoed
    /\ pc' = "sleep"
    /\ UNCHANGED <<argv, port, ports, table, available, ser, waiting, raw, line,
                   slept, out, hint, calls, exc, excAt, exitCode>>

\* Line 77
Sleep ==
    /\ pc = "sleep"
    /\ slept' = TRUE
    /\ pc' = "in_waiting"
    /\ UNCHANGED <<argv, port, ports, table, available, ser, waiting, raw, line,
                   echoed, out, hint, calls, exc, excAt, exitCode>>

\* reset_input_buffer, in_waiting or readline raises SerialException
IoError ==
    /\ pc \in IoPcs
    /\ exc' = "SerialException"
    /\ excAt' = pc
    /\ pc' = "except_serial"
    /\ UNCHANGED <<argv, port, ports, table, available, ser, waiting, raw, line,
                   echoed, slept, out, hint, calls, exitCode>>

\* A call of the loop raises an exception that is no SerialException (an
\* OSError from the device, a failing print)
RuntimeError ==
    /\ pc \in IoPcs \cup {"print_line"}
    /\ exc' = "Exception"
    /\ excAt' = pc
    /\ pc' = "except_exception"
    /\ UNCHANGED <<argv, port, ports, table, available, ser, waiting, raw, line,
                   echoed, slept, out, hint, calls, exitCode>>

\* Ctrl+C: KeyboardInterrupt is raised at the current statement.  Inside the
\* try block of monitor_serial line 86 catches it; anywhere else nothing does.
Interrupt ==
    /\ pc \in MainPcs \cup TryPcs \cup HandlerPcs
    /\ exc # "KeyboardInterrupt"
    /\ exc' = "KeyboardInterrupt"
    /\ excAt' = pc
    /\ pc' = IF pc \in TryPcs THEN "except_keyboard" ELSE "uncaught"
    /\ UNCHANGED <<argv, port, ports, table, available, ser, waiting, raw, line,
                   echoed, slept, out, hint, calls, exitCode>>

\* Lines 79-85
ExceptSerialException ==
    /\ pc = "except_serial"
    /\ out' = out \cup {"Error opening serial port:", "Make sure: port not in use"}
    /\ exitCode' = 1
    /\ pc' = "done"
    /\ UNCHANGED <<argv, port, ports, table, available, ser, waiting, raw, line,
                   echoed, slept, hint, calls, exc, excAt>>

\* A slip: the handler returns without closing the device
ExceptKeyboardInterrupt_noclose ==
    /\ pc = "except_keyboard"
    /\ out' = out \cup {"Monitoring stopped."}
    /\ exitCode' = 0
    /\ pc' = "done"
    /\ UNCHANGED <<argv, port, ports, table, available, ser, waiting, raw, line,
                   echoed, slept, hint, calls, exc, excAt>>

\* Lines 86-90.  Reading ser while it is unbound raises UnboundLocalError
\* inside the handler, which no clause of the same try statement catches.
ExceptKeyboardInterrupt ==
    /\ pc = "except_keyboard"
    /\ out' = out \cup {"Monitoring stopped."}
    /\ IF ser = "unbound"
       THEN /\ exc' = "UnboundLocalError"
            /\ excAt' = pc
            /\ pc' = "uncaught"
            /\ UNCHANGED <<ser, exitCode>>
       ELSE /\ ser' = "closed"
            /\ exitCode' = 0
            /\ pc' = "done"
            /\ UNCHANGED <<exc, excAt>>
    /\ UNCHANGED <<argv, port, ports, table, available, waiting, raw, line,
                   echoed, slept, hint, calls>>

\* A slip: the handler reports success
ExceptException_zero ==
    /\ pc = "except_exception"
    /\ out' = out \cup {"Unexpected error:"}
    /\ exitCode' = 0
    /\ pc' = "done"
    /\ UNCHANGED <<argv, port, ports, table, available, ser, waiting, raw, line,
                   echoed, slept, hint, calls, exc, excAt>>

\* Lines 91-93
ExceptException ==
    /\ pc = "except_exception"
    /\ out' = out \cup {"Unexpected error:"}
    /\ exitCode' = 1
    /\ pc' = "done"
    /\ UNCHANGED <<argv, port, ports, table, available, ser, waiting, raw, line,
                   echoed, slept, hint, calls, exc, excAt>>

----------------------------------------------------------------------------
(* Specifications *)

MainLists == PortLists(MainPool)
DetectLists == PortLists(DetectPool)

\* A run of main
Next ==
    \/ MainStart
    \/ FindEnumerate(MainLists)
    \/ FindScan
    \/ MainCheckPort
    \/ ListPorts(MainLists)
    \/ MainCheckAvailable
    \/ Open
    \/ OpenFails
    \/ Banner
    \/ ResetInputBuffer
    \/ CheckInWaiting
    \/ ReadLine
    \/ PrintLine
    \/ Sleep
    \/ IoError
    \/ RuntimeError
    \/ Interrupt
    \/ ExceptSerialException
    \/ ExceptKeyboardInterrupt
    \/ ExceptException

Spec == Init /\ [][Next]_vars

\* find_daisy_port alone, on every list of ports over DetectPool
InitDetect ==
    /\ argv = <<>>
    /\ pc = "main"
    /\ Locals

NextDetect ==
    \/ MainStart
    \/ FindEnumerate(DetectLists)
    \/ FindScan

SpecDetect == InitDetect /\ [][NextDetect]_vars

\* The same run; the statements of a handler, once entered, are executed
FairSpec == Init /\ [][Next]_vars /\ WF_vars(ExceptKeyboardInterrupt)

----------------------------------------------------------------------------
(* Properties of find_daisy_port *)

\* The port's description or device path contains a configured keyword when
\* letter case is disregarded on both sides
MatchesAnyCI(p) ==
    \E j \in 1..Len(daisy_keywords) :
        \/ In(lower(daisy_keywords[j]), lower(p.description))
        \/ In(lower(daisy_keywords[j]), lower(p.device))

HasMatch(ps) == \E i \in 1..Len(ps) : MatchesAnyCI(ps[i])

FirstMatch(ps) ==
    CHOOSE i \in 1..Len(ps) :
        MatchesAnyCI(ps[i]) /\ \A j \in 1..(i - 1) : ~MatchesAnyCI(ps[j])

\* C1: when some enumerated port contains a configured keyword, compared
\* case-insensitively, find_daisy_port returns the device path of the first
\* such port in enumeration order.
C1_FirstMatchingPortReturned ==
    (pc = "check_port" /\ HasMatch(ports)) => port = ports[FirstMatch(ports)].device

\* C2: when no enumerated port contains a configured keyword (the empty list
\* included) find_daisy_port returns None, and a device path it returns is
\* the device path of an enumerated port.
C2_NoMatchReturnsNone ==
    pc = "check_port" =>
        /\ ~HasMatch(ports) => port = None
        /\ port # None => \E i \in 1..Len(ports) : ports[i].device = port

C2_Witness ==
    pc = "check_port" /\ Len(ports) >= 2 /\ ~HasMatch(ports) /\ port = None

----------------------------------------------------------------------------
(* Properties of a run *)

Interrupted(at) == exc = "KeyboardInterrupt" /\ excAt \in at

\* C3: whenever monitor_serial has returned after the device was opened, the
\* connection handle is closed.
C3_HandleReleasedOnReturn ==
    (pc = "done" /\ ser # "unbound") => ser = "closed"

StoppedCleanly ==
    /\ pc = "done"
    /\ ser = "closed"
    /\ "Monitoring stopped." \in out
    /\ exitCode = 0

\* C4: after a user interrupt delivered at any statement of the monitoring
\* loop the run is in the interrupt handler or has ended with the handle
\* closed, the closing message printed and exit code 0; and it does end so.
C4_LoopInterruptStopsCleanly ==
    /\ [](Interrupted(LoopPcs) => (pc = "except_keyboard" \/ StoppedCleanly))
    /\ (Interrupted(LoopPcs) ~> StoppedCleanly)

C4_Witness ==
    StoppedCleanly /\ Interrupted({"print_line"}) /\ echoed = <<>> /\ raw # <<>>

\* C5: every run ends with main returning 0 or 1; no exception leaves main.
C5_NoUncaughtException ==
    pc \in FinalPcs => (pc = "done" /\ exitCode \in {0, 1})

OpenFailed == exc = "SerialException" /\ excAt = "open"

\* C6: with an explicit port argument nothing is enumerated or auto-detected
\* at any point of the run, and when the open fails the connection-error
\* diagnostic is printed and main returns 1.
C6_ExplicitPortSkipsDetection ==
    argv # <<>> =>
        /\ calls \cap {"find_daisy_port", "list_available_ports", "comports"} = {}
        /\ ports = <<>> /\ table = <<>> /\ available = <<>>
        /\ (pc = "done" /\ OpenFailed) =>
              /\ "Error opening serial port:" \in out
              /\ exitCode = 1
              /\ ser = "unbound"

C6_Witness ==
    argv = <<DevFake>> /\ pc = "done" /\ OpenFailed /\ exitCode = 1

\* find_daisy_port has returned nothing to a run without argument
DetectMissed ==
    /\ argv = <<>>
    /\ "comports" \in calls
    /\ pc # "scan" /\ excAt # "scan"
    /\ port = None

\* C7: after auto-detect returned nothing no serial connection is ever
\* opened, and main returns 1 having printed the "No serial ports found"
\* message and checklist when the listing is empty, and otherwise the port
\* table and a usage example naming the first port of that listing.
C7_DetectMissListsPorts ==
    DetectMissed =>
        /\ "Serial" \notin calls
        /\ ser = "unbound"
        /\ pc = "done" =>
              /\ exitCode = 1
              /\ "Available serial ports:" \in out
              /\ IF table = <<>>
                 THEN /\ {"No serial ports found!", "Make sure: firmware is running"} \subseteq out
                      /\ hint = None
                 ELSE /\ {"Please specify the port manually:", "Example:"} \subseteq out
                      /\ "No serial ports found!" \notin out
                      /\ hint = table[1].device

C7_Witness ==
    DetectMissed /\ pc = "done" /\ Len(table) = MaxPorts /\ hint = table[1].device

\* C8: main returns 0 only after a user interrupt of the monitor; a run that
\* ends for want of ports, by a failed detection, a failed open, an I/O
\* error or an unexpected error returns 1.
C8_ExitCodes ==
    pc = "done" =>
        /\ exitCode \in {0, 1}
        /\ exitCode = 0 => Interrupted(TryPcs)
        /\ (DetectMissed \/ exc \in {"SerialException", "Exception"}) => exitCode = 1

C8_Witness ==
    pc = "done" /\ exc = "Exception" /\ excAt = "in_waiting" /\ exitCode = 1

\* t is s without its leading and trailing whitespace
IsStripOf(t, s) ==
    \E i, j \in 0..Len(s) :
        /\ i + j <= Len(s)
        /\ t = SubSeq(s, i + 1, Len(s) - j)
        /\ \A k \in 1..i : s[k] \in Whitespace
        /\ \A k \in (Len(s) - j + 1)..Len(s) : s[k] \in Whitespace
        /\ t # <<>> => (t[1] \notin Whitespace /\ t[Len(t)] \notin Whitespace)

IsNotAscii(c) == ~IsAscii(c)

\* text is bytes with the invalid bytes dropped: the ASCII bytes survive in
\* order, and the other characters are as many as the well-formed two-byte
\* sequences
ValidTextOf(text, bytes) ==
    /\ SelectSeq(text, IsAscii) = SelectSeq(bytes, IsAscii)
    /\ Len(SelectSeq(text, IsNotAscii))
         = Cardinality({i \in 1..(Len(bytes) - 1) : IsLead2(bytes[i]) /\ IsCont(bytes[i + 1])})

Blank(text) == \A i \in 1..Len(text) : text[i] \in Whitespace

\* C9: a received line that is blank after decoding is not printed; a printed
\* line is non-empty and is the decoded line without its leading and trailing
\* whitespace; invalid bytes are dropped by the decoding and the loop goes on.
C9_PrintedLines ==
    /\ pc = "print_line" =>
          /\ exc = "none"
          /\ ValidTextOf(decode_ignore(raw), raw)
          /\ IsStripOf(line, decode_ignore(raw))
    /\ (pc = "sleep" /\ waiting /\ Blank(decode_ignore(raw))) => echoed = <<>>
    /\ echoed # <<>> =>
          /\ Len(echoed) = 1
          /\ echoed[1] # <<>>
          /\ IsStripOf(echoed[1], decode_ignore(raw))

C9_Witness ==
    /\ pc = "sleep"
    /\ raw = <<LetterA, BadFF, LetterA, Newline>>
    /\ echoed = << <<LetterA, LetterA>> >>

\* C10 as stated: the sleep is taken only when the availability check found
\* no unread bytes.
C10_SleepOnlyWhenIdle ==
    slept => ~waiting

\* C10 amended: every iteration sleeps, so each availability check after the
\* first follows a sleep, also when the iteration before it read a line.
C10_SleepEveryIteration ==
    (pc = "in_waiting" /\ "in_waiting" \in calls) => slept

C10_Witness ==
    pc = "in_waiting" /\ slept /\ waiting /\ echoed # <<>>

====
